---- MODULE Spec2Model ----
(***************************************************************************)
(* Model of the WebGPU particle system's host side: the WebGPUCanvas       *)
(* component (src/components/WebGPUCanvas.tsx) and the part of App         *)
(* (src/unnamed/part_000) that mounts it and reacts to its status reports. *)
(*                                                                         *)
(* One "session" is one run of the "Init and Start Loop" effect: one call  *)
(* of initWebGPU together with the flag `cancelled` of its closure.  One   *)
(* "instance" is one mounted WebGPUCanvas with its own refs.  The GPU      *)
(* context object created by session s is named s.                         *)
(*                                                                         *)
(* The promise reaction `.then(() => { if (!cancelled) rAF(animate) })`    *)
(* runs in the microtask checkpoint of the task that settles initWebGPU,   *)
(* so it is part of the action that settles it.                            *)
(***************************************************************************)
EXTENDS Integers, FiniteSets, Sequences, TLC

\* ---- bounds of the model ------------------------------------------------
MaxSessions == 2        \* runs of the init effect over the whole behaviour
MaxMounts == 2          \* WebGPUCanvas instances App mounts
MaxStep == 2            \* cap of contextRef.current.step
RandomSteps == 3        \* values Math.random() takes, evenly spaced in [0, 1)
MaxKernelSteps == 2     \* compute steps one particle is followed for

\* ---- program constants --------------------------------------------------
WorkgroupSize == 64
DeltaTime == 16
UniformBufferSize == 48
Float32Bytes == 4
QuadVertices == 6
Dpr == 1

Sessions == 1..MaxSessions
Instances == 1..MaxMounts
\* particleCount values the host passes: the code compares them with 0,
\* copies them and divides them by the workgroup size (65 particles need a
\* second workgroup).
Counts == {0, 1, 65}
\* Viewport extents: the code compares them with 0 and copies them.
Extents == {0, 1}

\* colorScheme of SimulationParams
Schemes == {"neon", "fire", "ocean"}

\* The other fields of SimulationParams, as the host passes them; the host
\* code only copies speed, interactionRadius and forceStrength, so they are
\* values of disjoint ranges.  The first record stands for INITIAL_PARAMS.
InitialTunables ==
  [speed |-> 1, interactionRadius |-> 3, forceStrength |-> 5,
   colorScheme |-> "neon"]

Tunables ==
  {InitialTunables,
   [speed |-> 2, interactionRadius |-> 4, forceStrength |-> 6,
    colorScheme |-> "fire"],
   [speed |-> 2, interactionRadius |-> 3, forceStrength |-> 6,
    colorScheme |-> "ocean"]}

\* e.buttons of a mouse event: bit 0 is the primary button.
Buttons == 0..2

\* useRef({ x: 0, y: 0, isDown: false }); a coordinate is the quotient n / d,
\* not finite when d = 0.
InitialMouse ==
  [x |-> [n |-> 0, d |-> 1], y |-> [n |-> 0, d |-> 1], isDown |-> FALSE]

Faults == {"unsupported", "error"}
Statuses == {"loading", "supported"} \cup Faults

\* Outcomes of one initWebGPU call, by the return or catch that ends it.
Outcomes == {"none", "unsupported", "acquisition", "threw", "noCanvas",
             "installed"}

\* The exceptions a frame can end with, by the call that throws.
FailPoints == {"none", "writeBuffer", "encode", "getCurrentTexture", "submit"}

VARIABLES
  hasGpu,      \* navigator.gpu is present
  status,      \* App's `status` state
  mounted,     \* the mounted WebGPUCanvas instance, 0 = none
  nInst,       \* instances mounted so far
  effect,      \* the session of the mounted instance's live init effect
  viewport,    \* <<clientWidth || innerWidth, clientHeight || innerHeight>>
  canvas,      \* <<canvas.width, canvas.height>> of the mounted instance
  paramsProp,  \* App's params.particleCount
  paramsRef,   \* paramsRef.current.particleCount, per instance
  contextRef,  \* contextRef.current per instance: 0 = null, else the context
  requestRef,  \* requestRef.current per instance
  pending,     \* the window's list of animation frame callbacks
  nSess,       \* sessions started so far
  sess,        \* per session: instance, position, cancelled, outcome, ...
  gpu,         \* per context: step, numParticles, batches submitted
  lastFrame,   \* the last command batch handed to queue.submit
  ticks,       \* the last call of animate: a toggle, its instance and the
               \* path it took
  mouseRef,    \* mouseRef.current of the mounted instance
  tunablesProp,\* App's params without particleCount
  tunablesRef, \* paramsRef.current without particleCount, mounted instance
  seed,        \* the run of the buffer creation code (lines 170-194)
  kernel       \* one particle under the compute shader, with its parameters

vars == <<hasGpu, status, mounted, nInst, effect, viewport, canvas, paramsProp,
          paramsRef, contextRef, requestRef, pending, nSess, sess, gpu,
          lastFrame, ticks, mouseRef, tunablesProp, tunablesRef, seed,
          kernel>>

\* The pointer and tunables state, and the state of the data specifications.
inputVars == <<mouseRef, tunablesProp, tunablesRef>>
dataVars == <<seed, kernel>>

NoSession == [inst |-> 0, pc |-> "idle", cancelled |-> FALSE,
              outcome |-> "none", valid |-> TRUE, pop |-> FALSE,
              scheduled |-> FALSE, reported |-> "none"]

NoContext == [step |-> 0, numParticles |-> 0, frames |-> 0]

NoFrame == [ctx |-> 0]

\* The data specifications are not running.
NoSeed == [phase |-> "off"]
NoKernel == [phase |-> "off"]

\* ---- pure helpers -------------------------------------------------------

\* canvas.width = width * dpr; canvas.height = height * dpr
CanvasSize(vp) == <<vp[1] * Dpr, vp[2] * Dpr>>

\* Mutant: bindGroups[1] binds particleBuffers[1] at both bindings.
BindGroupsAliased ==
  [g \in 0..3 |->
     CASE g = 0 -> [b1 |-> 0, b2 |-> 1]
       [] g = 1 -> [b1 |-> 1, b2 |-> 1]
       [] g = 2 -> [b1 |-> 0, b2 |-> -1]
       [] g = 3 -> [b1 |-> 1, b2 |-> -1]]

\* bindGroups[0..3]: b1 is the particle buffer at binding 1, b2 the one at
\* binding 2 (-1: the render layout has no binding 2).
BindGroups ==
  [g \in 0..3 |->
     CASE g = 0 -> [b1 |-> 0, b2 |-> 1]
       [] g = 1 -> [b1 |-> 1, b2 |-> 0]
       [] g = 2 -> [b1 |-> 0, b2 |-> -1]
       [] g = 3 -> [b1 |-> 1, b2 |-> -1]]

\* computePass.setBindGroup(0, bindGroups[step % 2])
ComputeBindGroupIndex(step) == step % 2

\* Mutant: the render bind groups swapped.
RenderBindGroupIndexSwapped(step) == IF step % 2 = 0 THEN 2 ELSE 3

\* const renderBindGroupIndex = (step % 2 === 0) ? 3 : 2
RenderBindGroupIndex(step) == IF step % 2 = 0 THEN 3 ELSE 2

\* Math.ceil(particleCount / workgroupSize)
WorkgroupCount(count) ==
  IF count % WorkgroupSize = 0 THEN count \div WorkgroupSize
  ELSE count \div WorkgroupSize + 1

\* Mutant: step is never advanced.
NextStepStuck(step) == step

\* contextRef.current.step++
NextStep(step) == step + 1

\* Mutant: the particle count guard is missing.
SkipTickNoCountGuard(hasCanvas, w, h, count) ==
  ~hasCanvas \/ w = 0 \/ h = 0

\* The guards of animate that skip a tick: lines 335 and 343.
SkipTick(hasCanvas, w, h, count) ==
  \/ ~hasCanvas \/ w = 0 \/ h = 0
  \/ count <= 0

\* Mutant: fire and ocean exchange their codes.
getColorSchemeValueSwapped(scheme) ==
  CASE scheme = "fire" -> 2
    [] scheme = "ocean" -> 1
    [] OTHER -> 0

\* Map color scheme string to float for shader
getColorSchemeValue(scheme) ==
  CASE scheme = "fire" -> 1
    [] scheme = "ocean" -> 2
    [] OTHER -> 0

\* Mutant: speed and interactionRadius are written in each other's place.
PackUniformSwapped(m, cv, t) ==
  <<m.x, m.y, cv[1], cv[2], DeltaTime, t.interactionRadius, t.speed,
    t.forceStrength, IF m.isDown THEN 1 ELSE 0,
    getColorSchemeValue(t.colorScheme), 0, 0>>

\* new Float32Array([...]) of lines 349-359: the twelve values of the
\* Parameter Block in the order they are written; deltaTime 0.016 is in
\* thousandths.
PackUniform(m, cv, t) ==
  <<m.x, m.y, cv[1], cv[2], DeltaTime, t.speed, t.interactionRadius,
    t.forceStrength, IF m.isDown THEN 1 ELSE 0,
    getColorSchemeValue(t.colorScheme), 0, 0>>

\* The command batch of one frame, encoded with context c by the loop that
\* session l started.
Frame(c, l, step, count, u) ==
  [ctx |-> c, loop |-> l, step |-> step,
   computeBg |-> ComputeBindGroupIndex(step),
   read |-> BindGroups[ComputeBindGroupIndex(step)].b1,
   write |-> BindGroups[ComputeBindGroupIndex(step)].b2,
   renderBg |-> RenderBindGroupIndex(step),
   render |-> BindGroups[RenderBindGroupIndex(step)].b1,
   workgroups |-> WorkgroupCount(count),
   vertices |-> QuadVertices, instances |-> count,
   uniform |-> u]

\* Animation frame handles: only equality of handles is ever observed, so a
\* new handle is the least one that no pending callback and no other ref holds.
Used(p, rr) == ({cb.id : cb \in p} \cup {rr[i] : i \in DOMAIN rr}) \ {0}

NewHandle(used) ==
  CHOOSE h \in 1..(Cardinality(used) + 1) :
    h \notin used /\ \A g \in 1..(h - 1) : g \in used

\* requestRef.current = requestAnimationFrame(animate), in instance i, for
\* the loop that session s started.
RequestFrame(p, rr, i, s) ==
  LET h == NewHandle(Used(p, [rr EXCEPT ![i] = 0]))
  IN  [pending |-> p \cup {[id |-> h, inst |-> i, loop |-> s]},
       requestRef |-> [rr EXCEPT ![i] = h]]

\* Mutant: the cleanup does not cancel the requested frame.
CancelledHandlesNone(req) == {}

\* if (requestRef.current) cancelAnimationFrame(requestRef.current)
CancelledHandles(req) == IF req # 0 THEN {req} ELSE {}

CancelFrame(p, req) == {cb \in p : cb.id \notin CancelledHandles(req)}

\* Mutant: the frame is requested without waiting for initWebGPU.
ShouldRequestFrameEarly(settled, isCancelled) == ~isCancelled

\* initWebGPU().then(() => { if (!cancelled) requestAnimationFrame(animate) })
ShouldRequestFrame(settled, isCancelled) == settled /\ ~isCancelled

\* Mutant: the then-callback does not look at `cancelled`.
ReactionIgnoresCancelled(p, rr, i, s, settled, isCancelled) ==
  IF settled
  THEN RequestFrame(p, rr, i, s)
  ELSE [pending |-> p, requestRef |-> rr]

\* The reaction of the effect to initWebGPU settling (or not) in this step.
Reaction(p, rr, i, s, settled, isCancelled) ==
  IF ShouldRequestFrame(settled, isCancelled)
  THEN RequestFrame(p, rr, i, s)
  ELSE [pending |-> p, requestRef |-> rr]

\* ---- initial state ------------------------------------------------------
Init ==
  /\ hasGpu \in BOOLEAN
  /\ status = "loading"
  /\ mounted = 0
  /\ nInst = 0
  /\ effect = 0
  /\ viewport \in Extents \X Extents
  /\ canvas = <<0, 0>>
  /\ paramsProp \in Counts \ {0}
  /\ paramsRef = [i \in Instances |-> 0]
  /\ contextRef = [i \in Instances |-> 0]
  /\ requestRef = [i \in Instances |-> 0]
  /\ pending = {}
  /\ nSess = 0
  /\ sess = [s \in Sessions |-> NoSession]
  /\ gpu = [s \in Sessions |-> NoContext]
  /\ lastFrame = NoFrame
  /\ ticks = [seq |-> 0, inst |-> 0, path |-> "none", ops |-> <<>>]
  /\ mouseRef = InitialMouse
  /\ tunablesProp = InitialTunables
  /\ tunablesRef = InitialTunables
  /\ seed = NoSeed
  /\ kernel = NoKernel

\* ---- initWebGPU ---------------------------------------------------------

\* onStatusChange(st) followed by `return` (or the catch block): the call of
\* initWebGPU of session s settles with outcome oc, and the effect reacts.
Fail(s, st, oc) ==
  LET i == sess[s].inst
      go == ShouldRequestFrame(TRUE, sess[s].cancelled)
      r == Reaction(pending, requestRef, i, s, TRUE, sess[s].cancelled)
  IN  /\ status' = st
      /\ sess' = [sess EXCEPT ![s].pc = "done", ![s].outcome = oc,
                              ![s].reported = st,
                              ![s].scheduled = sess[s].scheduled \/ go]
      /\ pending' = r.pending
      /\ requestRef' = r.requestRef

\* The synchronous start of initWebGPU in the effect body (lines 66-77) for
\* the new session s of instance i; base, p and rr are the sessions, the
\* callback list and the refs as the preceding cleanup left them.
InitStart(s, i, base, p, rr) ==
  LET settled == ~hasGpu
      go == ShouldRequestFrame(settled, FALSE)
      r == Reaction(p, rr, i, s, settled, FALSE)
      st == IF hasGpu THEN "loading" ELSE "unsupported"
  IN  /\ status' = st
      /\ sess' = [base EXCEPT ![s] =
                    [NoSession EXCEPT !.inst = i,
                       !.pc = IF hasGpu THEN "awaitAdapter" ELSE "done",
                       !.outcome = IF hasGpu THEN "none" ELSE "unsupported",
                       !.reported = st,
                       !.scheduled = go]]
      /\ pending' = r.pending
      /\ requestRef' = r.requestRef

\* Mutant: initWebGPU depends on the whole simParams object.
InitDepsChangedAny(oldCount, newCount, oldTunables, newTunables) ==
  oldCount # newCount \/ oldTunables # newTunables

\* Whether a render with new props changes initWebGPU and so re-runs the init
\* effect: the dependencies are [simParams.particleCount, onStatusChange],
\* and App's handleStatusChange never changes.
InitDepsChanged(oldCount, newCount, oldTunables, newTunables) ==
  oldCount # newCount

\* The cleanup of the init effect of session s in instance i.
CleanupSess(s) == [sess EXCEPT ![s].cancelled = TRUE]

\* App renders <WebGPUCanvas> (status is neither error nor unsupported): the
\* mount effects run: paramsRef, handleResize(), the init effect.
Mount ==
  /\ mounted = 0
  /\ status \notin Faults
  /\ nInst < MaxMounts
  /\ nSess < MaxSessions
  /\ LET i == nInst + 1
         s == nSess + 1
     IN  /\ nInst' = i
         /\ mounted' = i
         /\ effect' = s
         /\ nSess' = s
         /\ paramsRef' = [paramsRef EXCEPT ![i] = paramsProp]
         /\ canvas' = CanvasSize(viewport)
         /\ InitStart(s, i, sess, pending, requestRef)
  /\ mouseRef' = InitialMouse
  /\ tunablesRef' = tunablesProp
  /\ UNCHANGED <<tunablesProp, dataVars, hasGpu, viewport, paramsProp, contextRef, gpu, lastFrame,
                 ticks>>

\* The host passes a new particleCount: paramsRef is updated and, initWebGPU
\* having changed, the init effect is cleaned up and run again.
SetParticleCount(n) ==
  /\ n # paramsProp
  /\ paramsProp' = n
  /\ IF mounted = 0
     THEN UNCHANGED <<status, effect, nSess, paramsRef, sess, pending,
                      requestRef>>
     ELSE /\ InitDepsChanged(paramsProp, n, tunablesProp, tunablesProp)
          /\ nSess < MaxSessions
          /\ LET i == mounted
                 s == nSess + 1
             IN  /\ effect' = s
                 /\ nSess' = s
                 /\ paramsRef' = [paramsRef EXCEPT ![i] = n]
                 /\ InitStart(s, i, CleanupSess(effect),
                              CancelFrame(pending, requestRef[i]), requestRef)
  /\ UNCHANGED <<inputVars, dataVars, hasGpu, mounted, nInst, viewport, canvas, contextRef, gpu,
                 lastFrame, ticks>>

\* App stops rendering <WebGPUCanvas> once status is error or unsupported:
\* the cleanup of the init effect runs and the canvas goes away.
HostUnmount ==
  /\ mounted # 0
  /\ status \in Faults
  /\ sess' = CleanupSess(effect)
  /\ pending' = CancelFrame(pending, requestRef[mounted])
  /\ mounted' = 0
  /\ effect' = 0
  /\ canvas' = <<0, 0>>
  /\ UNCHANGED <<inputVars, dataVars, hasGpu, status, nInst, viewport, paramsProp, paramsRef,
                 contextRef, requestRef, nSess, gpu, lastFrame, ticks>>

\* navigator.gpu.requestAdapter() settles: with an adapter, with null, or
\* rejected.
AdapterResolved(s, r) ==
  /\ sess[s].pc = "awaitAdapter"
  /\ CASE r = "ok" ->
            /\ sess' = [sess EXCEPT ![s].pc = "awaitDevice"]
            /\ UNCHANGED <<status, pending, requestRef>>
       [] r = "null" -> Fail(s, "error", "acquisition")
       [] r = "reject" -> Fail(s, "error", "acquisition")
  /\ UNCHANGED <<inputVars, dataVars, hasGpu, mounted, nInst, effect, viewport, canvas, paramsProp,
                 paramsRef, contextRef, nSess, gpu, lastFrame, ticks>>

\* adapter.requestDevice() settles and the rest of initWebGPU runs (lines
\* 84-261): r is what the platform does, v whether the device accepts every
\* object that is created inside the validation error scope.
DeviceResolved(s, r, v) ==
  /\ sess[s].pc = "awaitDevice"
  /\ LET i == sess[s].inst
         go == ShouldRequestFrame(TRUE, sess[s].cancelled)
         re == Reaction(pending, requestRef, i, s, TRUE, sess[s].cancelled)
     IN
     CASE r = "reject" ->
            /\ Fail(s, "error", "acquisition")
            /\ UNCHANGED <<canvas, contextRef, gpu>>
       [] r # "reject" /\ i # mounted ->
            \* canvasRef.current is null: `return` without a report
            /\ sess' = [sess EXCEPT ![s].pc = "done", ![s].outcome = "noCanvas",
                                    ![s].scheduled = sess[s].scheduled \/ go]
            /\ pending' = re.pending
            /\ requestRef' = re.requestRef
            /\ UNCHANGED <<status, canvas, contextRef, gpu>>
       [] r = "noContext" /\ i = mounted ->
            /\ Fail(s, "error", "acquisition")
            /\ UNCHANGED <<canvas, contextRef, gpu>>
       [] r = "createThrew" /\ i = mounted ->
            /\ canvas' = CanvasSize(viewport)
            /\ Fail(s, "error", "threw")
            /\ UNCHANGED <<contextRef, gpu>>
       [] r = "installed" /\ i = mounted ->
            /\ canvas' = CanvasSize(viewport)
            /\ gpu' = [gpu EXCEPT ![s] =
                         [NoContext EXCEPT !.numParticles = paramsRef[i]]]
            /\ contextRef' = [contextRef EXCEPT ![i] = s]
            /\ sess' = [sess EXCEPT ![s].pc = "done",
                                    ![s].outcome = "installed",
                                    ![s].valid = v, ![s].pop = TRUE,
                                    ![s].scheduled = sess[s].scheduled \/ go]
            /\ pending' = re.pending
            /\ requestRef' = re.requestRef
            /\ UNCHANGED status
  /\ UNCHANGED <<inputVars, dataVars, hasGpu, mounted, nInst, effect, viewport, paramsProp,
                 paramsRef, nSess, lastFrame, ticks>>

\* device.popErrorScope() resolves: the validation result is reported.
PopErrorScopeResolved(s) ==
  /\ sess[s].pop
  /\ LET st == IF sess[s].valid THEN "supported" ELSE "error"
     IN  /\ status' = st
         /\ sess' = [sess EXCEPT ![s].pop = FALSE, ![s].reported = st]
  /\ UNCHANGED <<inputVars, dataVars, hasGpu, mounted, nInst, effect, viewport, canvas, paramsProp,
                 paramsRef, contextRef, requestRef, pending, nSess, gpu,
                 lastFrame, ticks>>

\* Mutant: the resize listener leaves the canvas as it is.
handleResizeIgnored(hasCanvas, cv, vp) == cv

\* handleResize: without a canvas it returns; otherwise the canvas takes the
\* viewport's size (and the surface is configured again).
handleResize(hasCanvas, cv, vp) == IF hasCanvas THEN CanvasSize(vp) ELSE cv

\* The window is resized; handleResize is registered while an instance is
\* mounted.
Resize(w, h) ==
  /\ <<w, h>> # viewport
  /\ viewport' = <<w, h>>
  /\ canvas' = handleResize(mounted # 0, canvas, <<w, h>>)
  /\ UNCHANGED <<inputVars, dataVars, hasGpu, status, mounted, nInst, effect, paramsProp, paramsRef,
                 contextRef, requestRef, pending, nSess, sess, gpu, lastFrame,
                 ticks>>

\* ---- animate ------------------------------------------------------------

\* The path one call of animate takes: the early return of line 322, the
\* early returns of lines 335 and 343, an exception before or after
\* queue.writeBuffer has run, or the whole body.
TickPath(c, skip, fail) ==
  CASE c = 0 -> "noContext"
    [] c # 0 /\ skip -> "skipped"
    [] c # 0 /\ ~skip /\ fail = "writeBuffer" -> "threwBeforeWrite"
    [] c # 0 /\ ~skip /\ fail \notin {"none", "writeBuffer"} -> "threwAfterWrite"
    [] OTHER -> "submitted"

\* Whether the call of animate that `t` records ran queue.writeBuffer.
Wrote(t) == t.path \in {"threwAfterWrite", "submitted"}

Threw(t) == t.path \in {"threwBeforeWrite", "threwAfterWrite"}

\* Mutant: the batch is submitted before the uniform buffer is written.
FrameOpsSubmitFirst ==
  <<"submit", "writeBuffer", "computePass", "renderPass", "step++",
    "requestAnimationFrame">>

\* What the body of animate does after its guards, in the order of the code:
\* queue.writeBuffer (line 360), the compute pass (364-372), the render pass
\* (375-391), queue.submit (393), step++ (395), requestAnimationFrame (396).
FrameOps ==
  <<"writeBuffer", "computePass", "renderPass", "submit", "step++",
    "requestAnimationFrame">>

\* The operation of FrameOps in which the call named by a fail point is made.
ThrowingOp(fail) ==
  CASE fail = "writeBuffer" -> "writeBuffer"
    [] fail = "encode" -> "computePass"
    [] fail = "getCurrentTexture" -> "renderPass"
    [] fail = "submit" -> "submit"

\* The operations one call of animate completes: only the request of the
\* next frame on the early returns, the operations before the one that
\* throws, or all of them.
AnimateOps(path, fail) ==
  CASE path \in {"noContext", "skipped"} -> <<"requestAnimationFrame">>
    [] path = "submitted" -> FrameOps
    [] OTHER ->
         LET k == CHOOSE n \in 1..Len(FrameOps) : FrameOps[n] = ThrowingOp(fail)
         IN  SubSeq(FrameOps, 1, k - 1)

\* The browser runs the animation frame callback cb; fail is the call of this
\* frame that throws, if any.
Animate(cb, fail) ==
  /\ cb \in pending
  /\ LET i == cb.inst
         c == contextRef[i]
         p0 == pending \ {cb}
         again == RequestFrame(p0, requestRef, i, cb.loop)
         count == paramsRef[i]
         skip == c = 0 \/ SkipTick(i = mounted, canvas[1], canvas[2], count)
     IN  /\ ticks' = [seq |-> 1 - ticks.seq, inst |-> i,
                      path |-> TickPath(c, skip, fail),
                      ops |-> AnimateOps(TickPath(c, skip, fail), fail)]
         /\ IF skip 
            THEN /\ fail = "none"
                 /\ pending' = again.pending
                 /\ requestRef' = again.requestRef
                 /\ UNCHANGED <<gpu, lastFrame>>
            ELSE CASE fail = "writeBuffer" ->
                        /\ pending' = p0
                        /\ UNCHANGED <<requestRef, gpu, lastFrame>>
                   [] fail \in {"encode", "getCurrentTexture", "submit"} ->
                        /\ pending' = p0
                        /\ UNCHANGED <<requestRef, gpu, lastFrame>>
                   [] fail = "none" ->
                        /\ gpu[c].step < MaxStep
                        /\ lastFrame' = Frame(c, cb.loop, gpu[c].step, count,
                                            PackUniform(mouseRef, canvas,
                                                        tunablesRef))
                        /\ gpu' = [gpu EXCEPT
                                     ![c].frames = gpu[c].frames + 1,
                                     ![c].step = NextStep(gpu[c].step)]
                        /\ pending' = again.pending
                        /\ requestRef' = again.requestRef
  /\ UNCHANGED <<inputVars, dataVars, hasGpu, status, mounted, nInst, effect, viewport, canvas,
                 paramsProp, paramsRef, contextRef, nSess, sess>>

\* ---- the shaders' view of the Parameter Block ---------------------------

\* struct SimParams of COMPUTE_SHADER and of RENDER_SHADER, member by member.
ComputeSimParams ==
  <<[name |-> "mousePos", type |-> "vec2f"],
    [name |-> "resolution", type |-> "vec2f"],
    [name |-> "deltaTime", type |-> "f32"],
    [name |-> "speed", type |-> "f32"],
    [name |-> "radius", type |-> "f32"],
    [name |-> "force", type |-> "f32"],
    [name |-> "isClicking", type |-> "f32"],
    [name |-> "colorScheme", type |-> "f32"]>>

RenderSimParams ==
  <<[name |-> "mousePos", type |-> "vec2f"],
    [name |-> "resolution", type |-> "vec2f"],
    [name |-> "deltaTime", type |-> "f32"],
    [name |-> "speed", type |-> "f32"],
    [name |-> "radius", type |-> "f32"],
    [name |-> "force", type |-> "f32"],
    [name |-> "isClicking", type |-> "f32"],
    [name |-> "colorScheme", type |-> "f32"]>>

\* WGSL memory layout: size and alignment of a member are 8 bytes for vec2f
\* and 4 for f32; a member starts at the next multiple of its alignment.
SizeOf(type) == IF type = "vec2f" THEN 2 * Float32Bytes ELSE Float32Bytes

RoundUp(k, n) == ((n + k - 1) \div k) * k

RECURSIVE OffsetOf(_, _)
OffsetOf(struct, i) ==
  IF i = 1 THEN 0
  ELSE RoundUp(SizeOf(struct[i].type),
               OffsetOf(struct, i - 1) + SizeOf(struct[i - 1].type))

StructSize(struct) ==
  RoundUp(2 * Float32Bytes,
          OffsetOf(struct, Len(struct)) + SizeOf(struct[Len(struct)].type))

\* What a shader reads as params.<name> from the block u of f32 words.
Member(struct, u, name) ==
  LET i == CHOOSE k \in 1..Len(struct) : struct[k].name = name
      w == OffsetOf(struct, i) \div Float32Bytes + 1
  IN  IF struct[i].type = "vec2f" THEN <<u[w], u[w + 1]>> ELSE <<u[w]>>

\* vs_main: the ramp that the thresholds 0.5 and 1.5 select for the value
\* of params.colorScheme.
SelectRamp(colorScheme) ==
  IF 2 * colorScheme < 1 THEN "neon"
  ELSE IF 2 * colorScheme < 3 THEN "fire"
  ELSE "ocean"

\* if (index >= arrayLength(&outputParticles)) { return; }: whether the
\* invocation with this global index returns without writing, the particle
\* buffers holding len particles.
BoundsCheckSkips(index, len) == index >= len

\* ---- pointer and tunables -----------------------------------------------

\* The quotient n / d of two numbers as JavaScript computes it, kept exact:
\* reduced when it is an integer, not finite (d = 0) when the divisor is 0.
Quotient(n, d) ==
  CASE d = 0 -> [n |-> 0, d |-> 0]
    [] d # 0 /\ n % d = 0 -> [n |-> n \div d, d |-> 1]
    [] OTHER -> [n |-> n, d |-> d]

\* updateMouse: the event's client position in the canvas's bounding rect
\* (origin 0, 0, the viewport's size) becomes a position in [-1, 1] with y
\* pointing up; isDown is bit 0 of e.buttons.
updateMouse(clientX, clientY, buttons, rect) ==
  [x |-> Quotient(2 * clientX - rect[1], rect[1]),
   y |-> Quotient(rect[2] - 2 * clientY, rect[2]),
   isDown |-> buttons % 2 = 1]

\* Mutant: paramsRef keeps the params it was created with.
ParamsRefEffectOnce(isMounted, ref, props) == ref

\* useEffect(() => { paramsRef.current = simParams; }, [simParams]): a
\* mounted instance stores every new params object.
ParamsRefEffect(isMounted, ref, props) == IF isMounted THEN props ELSE ref

\* A mousemove event on the window while an instance is mounted.
MouseMove(clientX, clientY, buttons) ==
  /\ mounted # 0
  /\ mouseRef' = updateMouse(clientX, clientY, buttons, viewport)
  /\ mouseRef' # mouseRef
  /\ UNCHANGED <<tunablesProp, tunablesRef, dataVars, hasGpu, status, mounted,
                 nInst, effect, viewport, canvas, paramsProp, paramsRef,
                 contextRef, requestRef, pending, nSess, sess, gpu, lastFrame,
                 ticks>>

\* handleDown and handleUp: a mousedown or mouseup event on the window.
MouseButton(down) ==
  /\ mounted # 0
  /\ mouseRef.isDown # down
  /\ mouseRef' = [mouseRef EXCEPT !.isDown = down]
  /\ UNCHANGED <<tunablesProp, tunablesRef, dataVars, hasGpu, status, mounted,
                 nInst, effect, viewport, canvas, paramsProp, paramsRef,
                 contextRef, requestRef, pending, nSess, sess, gpu, lastFrame,
                 ticks>>

\* The host passes new tunables (Controls' onChange): the paramsRef effect
\* stores them, and the init effect re-runs only if initWebGPU changed.
SetTunables(t) ==
  /\ t # tunablesProp
  /\ tunablesProp' = t
  /\ tunablesRef' = ParamsRefEffect(mounted # 0, tunablesRef, t)
  /\ IF mounted # 0 /\ InitDepsChanged(paramsProp, paramsProp, tunablesProp, t)
     THEN /\ nSess < MaxSessions
          /\ LET i == mounted
                 s == nSess + 1
             IN  /\ effect' = s
                 /\ nSess' = s
                 /\ InitStart(s, i, CleanupSess(effect),
                              CancelFrame(pending, requestRef[i]), requestRef)
     ELSE UNCHANGED <<status, effect, nSess, sess, pending, requestRef>>
  /\ UNCHANGED <<mouseRef, dataVars, hasGpu, mounted, nInst, viewport, canvas,
                 paramsProp, paramsRef, contextRef, gpu, lastFrame, ticks>>

\* ---- specification ------------------------------------------------------
Next ==
  \/ Mount
  \/ HostUnmount
  \/ \E n \in Counts : SetParticleCount(n)
  \/ \E s \in Sessions, r \in {"ok", "null", "reject"} : AdapterResolved(s, r)
  \/ \E s \in Sessions, v \in BOOLEAN,
        r \in {"reject", "noContext", "createThrew", "installed"} :
          DeviceResolved(s, r, v)
  \/ \E s \in Sessions : PopErrorScopeResolved(s)
  \/ \E w \in Extents, h \in Extents : Resize(w, h)
  \/ \E cb \in pending, fail \in FailPoints : Animate(cb, fail)

Spec == Init /\ [][Next]_vars

\* The lifecycle with the host also changing the tunables.
NextTunables ==
  \/ Next
  \/ \E t \in {tt \in Tunables : tt.colorScheme # "ocean"} : SetTunables(t)

SpecTunables == Init /\ [][NextTunables]_vars

\* The running loop under pointer, tunables and resize events: the state
\* after one mount whose initialization succeeded and reported "supported".
ExtentsWide == {0, 1, 2}

InitRunning ==
  /\ hasGpu = TRUE
  /\ status = "supported"
  /\ mounted = 1
  /\ nInst = 1
  /\ effect = 1
  /\ viewport = <<1, 1>>
  /\ canvas = CanvasSize(viewport)
  /\ paramsProp = 1
  /\ paramsRef = [i \in Instances |-> IF i = 1 THEN 1 ELSE 0]
  /\ contextRef = [i \in Instances |-> IF i = 1 THEN 1 ELSE 0]
  /\ requestRef = [i \in Instances |-> IF i = 1 THEN 1 ELSE 0]
  /\ pending = {[id |-> 1, inst |-> 1, loop |-> 1]}
  /\ nSess = 1
  /\ sess = [s \in Sessions |->
               IF s = 1
               THEN [NoSession EXCEPT !.inst = 1, !.pc = "done",
                                      !.outcome = "installed", !.valid = TRUE,
                                      !.scheduled = TRUE,
                                      !.reported = "supported"]
               ELSE NoSession]
  /\ gpu = [s \in Sessions |->
              IF s = 1 THEN [NoContext EXCEPT !.numParticles = 1]
              ELSE NoContext]
  /\ lastFrame = NoFrame
  /\ ticks = [seq |-> 0, inst |-> 0, path |-> "none", ops |-> <<>>]
  /\ mouseRef = InitialMouse
  /\ tunablesProp = InitialTunables
  /\ tunablesRef = InitialTunables
  /\ seed = NoSeed
  /\ kernel = NoKernel

NextInput ==
  \/ \E p \in {<<0, 0>>, viewport}, b \in Buttons : MouseMove(p[1], p[2], b)
  \/ \E down \in BOOLEAN : MouseButton(down)
  \/ \E t \in Tunables : SetTunables(t)
  \/ \E w \in ExtentsWide, h \in ExtentsWide \ {0} : Resize(w, h)
  \/ \E cb \in pending, fail \in FailPoints : Animate(cb, fail)

SpecInput == InitRunning /\ [][NextInput]_vars

TypeOK ==
  /\ hasGpu \in BOOLEAN
  /\ status \in Statuses
  /\ mounted \in 0..MaxMounts
  /\ effect \in 0..MaxSessions
  /\ nSess \in 0..MaxSessions
  /\ \A cb \in pending : cb.inst \in Instances /\ cb.loop \in Sessions
  /\ \A s \in Sessions : sess[s].outcome \in Outcomes

\* ---- the particle buffers (initWebGPU, Create Buffers) --------------------

\* The lifecycle, pointer and tunables variables; the data specifications
\* look at one run of the buffer creation code, or at one particle under the
\* compute shader, on its own and leave them at their initial values.
hostVars ==
  <<hasGpu, status, mounted, nInst, effect, viewport, canvas, paramsProp,
    paramsRef, contextRef, requestRef, pending, nSess, sess, gpu, lastFrame,
    ticks, mouseRef, tunablesProp, tunablesRef>>

HostIdle ==
  /\ hasGpu = TRUE
  /\ status = "loading"
  /\ mounted = 0
  /\ nInst = 0
  /\ effect = 0
  /\ viewport = <<1, 1>>
  /\ canvas = <<0, 0>>
  /\ paramsProp = 1
  /\ paramsRef = [i \in Instances |-> 0]
  /\ contextRef = [i \in Instances |-> 0]
  /\ requestRef = [i \in Instances |-> 0]
  /\ pending = {}
  /\ nSess = 0
  /\ sess = [s \in Sessions |-> NoSession]
  /\ gpu = [s \in Sessions |-> NoContext]
  /\ lastFrame = NoFrame
  /\ ticks = [seq |-> 0, inst |-> 0, path |-> "none", ops |-> <<>>]
  /\ mouseRef = InitialMouse
  /\ tunablesProp = InitialTunables
  /\ tunablesRef = InitialTunables

\* Math.random() returns r / RandomSteps for an r of Randoms, a value of
\* [0, 1).  The particle data are fixed-point numbers: SeedOne stands for 1.0.
Randoms == 0..(RandomSteps - 1)

\* numParticles of the runs of the buffer creation code
SeedCounts == {1, 2}

SeedOne == 40 * RandomSteps

\* Math.random() * 2 - 1
SeedPos(r) == ((r * SeedOne) \div RandomSteps) * 2 - SeedOne

\* Mutant: the velocity is not centred on 0.
SeedVelUncentred(r) == ((r * SeedOne) \div RandomSteps) \div 20

\* (Math.random() - 0.5) * 0.05
SeedVel(r) == ((r * SeedOne) \div RandomSteps - SeedOne \div 2) \div 20

\* new Float32Array(numParticles * 4): zero-filled
NewFloat32Array(len) == [k \in 1..len |-> 0]

\* One iteration of the loop of lines 175-180 with its four random draws.
SeedParticle(rx, ry, rvx, rvy) ==
  /\ seed.phase = "fill"
  /\ seed.i < seed.numParticles
  /\ seed' = [seed EXCEPT
                !.i = seed.i + 1,
                !.particleData =
                   [k \in 1..Len(seed.particleData) |->
                      CASE k = seed.i * 4 + 1 -> SeedPos(rx)
                        [] k = seed.i * 4 + 2 -> SeedPos(ry)
                        [] k = seed.i * 4 + 3 -> SeedVel(rvx)
                        [] k = seed.i * 4 + 4 -> SeedVel(rvy)
                        [] OTHER -> seed.particleData[k]]]
  /\ UNCHANGED <<hostVars, kernel>>

\* The loop has ended: both buffers are created with the byte length of
\* particleData (a new buffer is zero-filled).
CreateParticleBuffers ==
  /\ seed.phase = "fill"
  /\ seed.i = seed.numParticles
  /\ LET byteLength == Len(seed.particleData) * Float32Bytes
         buffer == [size |-> byteLength,
                    data |-> NewFloat32Array(Len(seed.particleData))]
     IN  seed' = [seed EXCEPT !.phase = "created",
                              !.particleBuffers = <<buffer, buffer>>]
  /\ UNCHANGED <<hostVars, kernel>>

\* device.queue.writeBuffer(particleBuffers[b], 0, particleData), for b = 0
\* and then for b = 1.
WriteParticleBuffer(b) ==
  /\ \/ b = 0 /\ seed.phase = "created"
     \/ b = 1 /\ seed.phase = "written"
  /\ seed' = [seed EXCEPT
                !.phase = IF b = 0 THEN "written" ELSE "done",
                !.particleBuffers[b + 1].data = seed.particleData]
  /\ UNCHANGED <<hostVars, kernel>>

InitSeed ==
  /\ HostIdle
  /\ kernel = NoKernel
  /\ \E n \in SeedCounts :
       seed = [phase |-> "fill", numParticles |-> n, i |-> 0,
               particleData |-> NewFloat32Array(n * 4),
               particleBuffers |-> <<>>]

NextSeed ==
  \/ \E rx \in Randoms, ry \in Randoms, rvx \in Randoms, rvy \in Randoms :
       SeedParticle(rx, ry, rvx, rvy)
  \/ CreateParticleBuffers
  \/ \E b \in {0, 1} : WriteParticleBuffer(b)

SpecSeed == InitSeed /\ [][NextSeed]_vars

\* ---- the compute shader (COMPUTE_SHADER main) -----------------------------

\* The shader's f32 values are fixed-point numbers: One stands for 1.0, and
\* products and quotients are truncated.  deltaTime alone is in thousandths
\* whatever One is.
One == 1000

Abs(a) == IF a < 0 THEN -a ELSE a

TruncDiv(a, b) ==
  IF (a >= 0) = (b > 0) THEN Abs(a) \div Abs(b) ELSE -(Abs(a) \div Abs(b))

FMul(a, b) == TruncDiv(a * b, One)

FDiv(a, b) == TruncDiv(a * One, b)

\* x * params.deltaTime
TimesDeltaTime(a, dt) == TruncDiv(a * dt, 1000)

RECURSIVE SqrtBetween(_, _, _)
SqrtBetween(v, lo, hi) ==
  IF hi - lo <= 1 THEN lo
  ELSE LET mid == (lo + hi) \div 2
       IN  IF mid * mid <= v THEN SqrtBetween(v, mid, hi)
           ELSE SqrtBetween(v, lo, mid)

\* length(v)
Length(v) == SqrtBetween(v[1] * v[1] + v[2] * v[2], 0, 46340)

Max(a, b) == IF a >= b THEN a ELSE b

\* The static flow field at a position: sin and cos of the position, exact
\* at the origin, some value of [-1, 1] in each component elsewhere.
FlowField(pos) ==
  IF pos = <<0, 0>> THEN {<<0, One>>}
  ELSE {<<fx, fy>> : fx \in {-One, 0, One}, fy \in {-One, 0, One}}

\* normalize(distVec): the shader calls it without a test of the length; for
\* the zero vector WGSL leaves the result indeterminate, and an
\* implementation returns the zero vector (zero = TRUE) or a value that is
\* not finite.
Normalize(v, zero) ==
  LET len == Length(v)
  IN  IF len = 0
      THEN [finite |-> zero, v |-> <<0, 0>>]
      ELSE [finite |-> TRUE, v |-> <<FDiv(v[1], len), FDiv(v[2], len)>>]

\* The force of the pointer on a particle (lines 67-84).
Interaction(params, pos, zero) ==
  LET resX == Max(params.resolution[1] * One, One)
      resY == Max(params.resolution[2] * One, One)
      aspect == FDiv(resX, resY)
      distVec == <<params.mousePos[1] - pos[1], params.mousePos[2] - pos[2]>>
      distVecCorrected == <<FMul(distVec[1], aspect), distVec[2]>>
      dist == Length(distVecCorrected)
  IN  IF dist < params.radius
      THEN LET t == One - FDiv(dist, params.radius)
               strength == FMul(t, params.force)
               dir == Normalize(distVec, zero)
               tangent == <<-dir.v[2], dir.v[1]>>
           IN  [inside |-> TRUE, dist |-> dist, finite |-> dir.finite,
                force |->
                  IF 2 * params.isClicking > 1
                  THEN <<FMul(-dir.v[1], strength) * 10,
                         FMul(-dir.v[2], strength) * 10>>
                  ELSE <<FMul(dir.v[1] \div 2 + tangent[1] * 8, strength),
                         FMul(dir.v[2] \div 2 + tangent[2] * 8, strength)>>]
      ELSE [inside |-> FALSE, dist |-> dist, finite |-> TRUE,
            force |-> <<0, 0>>]

\* Boundary wrap-around of one component: one test on each side.
Wrap(x) ==
  LET lifted == IF x < -One THEN x + 2 * One ELSE x
  IN  IF lifted > One THEN lifted - 2 * One ELSE lifted

\* Update Velocity, Update Position, wrap (lines 86-96) for one component.
UpdateVel(vel, flow, force, params) ==
  TruncDiv(vel * 96, 100)
    + TruncDiv(FMul(flow, params.speed), 1000)
    + TimesDeltaTime(force, params.deltaTime) * 5

UpdatePos(pos, vel, params) ==
  Wrap(pos + TimesDeltaTime(FMul(vel, params.speed), params.deltaTime) * 60)

\* One invocation of main on the particle: flow is the value of the flow
\* field, zero what normalize does with the zero vector.
ComputeStep(flow, zero) ==
  /\ kernel.phase = "run"
  /\ kernel.steps < MaxKernelSteps
  /\ kernel.finite
  /\ Abs(kernel.pos[1]) <= One /\ Abs(kernel.pos[2]) <= One
  /\ flow \in FlowField(kernel.pos)
  /\ LET params == kernel.params
         pull == Interaction(params, kernel.pos, zero)
         velX == UpdateVel(kernel.vel[1], flow[1], pull.force[1], params)
         velY == UpdateVel(kernel.vel[2], flow[2], pull.force[2], params)
     IN  kernel' =
           IF pull.finite
           THEN [kernel EXCEPT
                   !.steps = kernel.steps + 1,
                   !.zeroDist = pull.inside /\ pull.dist = 0,
                   !.vel = <<velX, velY>>,
                   !.pos = <<UpdatePos(kernel.pos[1], velX, params),
                             UpdatePos(kernel.pos[2], velY, params)>>]
           ELSE [kernel EXCEPT
                   !.steps = kernel.steps + 1,
                   !.zeroDist = pull.inside /\ pull.dist = 0,
                   !.finite = FALSE,
                   !.vel = <<0, 0>>,
                   !.pos = <<0, 0>>]
  /\ UNCHANGED <<hostVars, seed>>

\* A seeded particle and a Parameter Block: tunables of the ranges of the
\* Controls sliders, a pointer inside the canvas.
InitKernel ==
  /\ HostIdle
  /\ seed = NoSeed
  /\ \E pos \in {<<0, 0>>, <<One \div 2, 0>>, <<-One, One>>},
        vel \in {<<0, 0>>, <<One \div 40, -(One \div 40)>>},
        mousePos \in {<<0, 0>>, <<One \div 5, 0>>, <<One, One>>},
        isClicking \in {0, 1},
        speed \in {One \div 10, One, 3 * One},
        radius \in {One \div 20, (35 * One) \div 100, (8 * One) \div 10},
        force \in {One \div 10, (15 * One) \div 10, 5 * One},
        resolution \in {<<1, 1>>, <<2, 1>>} :
       kernel = [phase |-> "run", steps |-> 0, finite |-> TRUE,
                 zeroDist |-> FALSE, pos |-> pos, vel |-> vel,
                 params |-> [mousePos |-> mousePos, resolution |-> resolution,
                             deltaTime |-> DeltaTime, speed |-> speed,
                             radius |-> radius, force |-> force,
                             isClicking |-> isClicking]]

NextKernel ==
  \E flow \in FlowField(kernel.pos), zero \in BOOLEAN : ComputeStep(flow, zero)

SpecKernel == InitKernel /\ [][NextKernel]_vars

\* ---- properties -----------------------------------------------------------

\* A batch has been submitted.
Submitted == lastFrame.ctx # 0

\* The last call of animate, in the step that is being taken.
Ticked == ticks'.seq # ticks.seq

\* C1: in every submitted frame the render pass reads the particle buffer
\* that the compute pass of that frame writes: buffer 1 when step is even,
\* buffer 0 when step is odd.
C1_RenderReadsComputeOutput ==
  Submitted =>
    /\ lastFrame.render = lastFrame.write
    /\ lastFrame.step % 2 = 0 => lastFrame.write = 1 /\ lastFrame.render = 1
    /\ lastFrame.step % 2 = 1 => lastFrame.write = 0 /\ lastFrame.render = 0

\* A frame with an odd step has been submitted (after one with an even step).
C1_Witness ==
  /\ Submitted
  /\ lastFrame.step % 2 = 1
  /\ lastFrame.render = 0

\* C2: no compute dispatch reads and writes the same particle buffer: the
\* bind group selected by step % 2, for the step of every installed context
\* and in every submitted frame, binds the two different particle buffers at
\* binding 1 and binding 2.
C2_ComputeNeverAliases ==
  /\ \A i \in Instances :
       contextRef[i] # 0 =>
         LET bg == BindGroups[ComputeBindGroupIndex(gpu[contextRef[i]].step)]
         IN  bg.b1 # bg.b2 /\ {bg.b1, bg.b2} = {0, 1}
  /\ Submitted =>
       /\ lastFrame.read # lastFrame.write
       /\ {lastFrame.read, lastFrame.write} = {0, 1}

\* A frame has been submitted with the second compute bind group.
C2_Witness ==
  /\ Submitted
  /\ lastFrame.computeBg = 1
  /\ lastFrame.read = 1

\* One step of the alternation of C3.
C3_Step ==
  /\ Submitted' =>
       lastFrame'.computeBg = (gpu'[lastFrame'.ctx].frames - 1) % 2
  /\ \A c \in Sessions :
       /\ gpu'[c].frames # gpu[c].frames =>
            /\ gpu'[c].frames = gpu[c].frames + 1
            /\ gpu'[c].step = gpu[c].step + 1
            /\ lastFrame'.ctx = c
            /\ (Submitted /\ lastFrame.ctx = c) =>
                 /\ lastFrame'.read = lastFrame.write
                 /\ lastFrame'.read = lastFrame.render
       /\ gpu'[c].frames = gpu[c].frames => gpu'[c].step = gpu[c].step

\* C3: buffer roles strictly alternate: the k-th batch submitted with one
\* context uses compute bind group k mod 2, the compute pass of the next
\* batch reads the buffer the previous one wrote and rendered, and step
\* advances by one exactly when a batch is submitted.
C3_RolesAlternate == [][C3_Step]_vars

\* The second batch of one context has been submitted.
C3_Witness ==
  /\ Submitted
  /\ gpu[lastFrame.ctx].frames = 2
  /\ lastFrame.computeBg = 1

\* The inputs that make animate skip a tick of instance i with a context.
Degenerate(i) ==
  /\ contextRef[i] # 0
  /\ \/ i # mounted
     \/ canvas[1] = 0
     \/ canvas[2] = 0
     \/ paramsRef[i] <= 0

\* C4: a tick that finds the canvas with zero width or height, or
\* particleCount <= 0, writes no uniform buffer, submits nothing, leaves
\* step alone and requests the next tick.
C4_DegenerateTickSkips ==
  [][(Ticked /\ Degenerate(ticks'.inst)) =>
       /\ ~Wrote(ticks')
       /\ gpu' = gpu
       /\ lastFrame' = lastFrame
       /\ \E cb \in pending' : cb.inst = ticks'.inst]_vars

\* The last tick was skipped, with a context installed and particleCount 0
\* on a canvas of non-zero extent, and the next tick is requested.
C4_Witness ==
  /\ ticks.path = "skipped"
  /\ Degenerate(ticks.inst)
  /\ paramsRef[ticks.inst] = 0
  /\ canvas[1] # 0 /\ canvas[2] # 0
  /\ pending # {}

\* C5: a frame with a failing step is skipped and the next frame is still
\* requested.
C5_FrameErrorKeepsLoop ==
  [][(Ticked /\ Threw(ticks')) =>
       /\ lastFrame' = lastFrame
       /\ \E cb \in pending' : cb.inst = ticks'.inst]_vars

\* The initialization failures of kinds (a) to (c).
Unsupported(s) == sess[s].outcome = "unsupported"
AcquisitionFailed(s) == sess[s].outcome = "acquisition"
ValidationFailed(s) ==
  \/ sess[s].outcome = "threw"
  \/ sess[s].outcome = "installed" /\ ~sess[s].valid

\* C6: every initialization failure of kinds (a) to (c) is reported to the
\* host before the first frame callback of its session is requested.
C6_FailureReportedBeforeFrame ==
  \A s \in Sessions :
    ((Unsupported(s) \/ AcquisitionFailed(s) \/ ValidationFailed(s))
       /\ sess[s].scheduled)
      => sess[s].reported \in Faults

\* C7: no batch is ever submitted with the resources of an initialization
\* that the device rejected with a validation error.
C7_NoBatchAfterValidationError ==
  \A s \in Sessions :
    (sess[s].outcome = "installed" /\ ~sess[s].valid) => gpu[s].frames = 0

\* C8: after an unsupported or acquisition-failure outcome the loop never
\* starts: the session requests no frame callback and submits no batch.
C8_NoLoopAfterAcquisitionFailure ==
  \A s \in Sessions :
    (Unsupported(s) \/ AcquisitionFailed(s)) =>
      /\ ~sess[s].scheduled
      /\ \A cb \in pending : cb.loop # s
      /\ Submitted => lastFrame.loop # s

\* The state part of C9.
C9_Inv ==
  /\ \A cb \in pending : sess[cb.loop].pc = "done"
  /\ \A s \in Sessions : sess[s].scheduled => sess[s].pc = "done"
  /\ (effect # 0 /\ sess[effect].pc # "done") =>
       \A cb \in pending : cb.inst # mounted
  /\ Submitted => sess[lastFrame.loop].pc = "done"

\* C9: no frame is requested or submitted while the acquisition of the
\* current initialization is in progress, a session requests its first frame
\* only once its initWebGPU has settled, and a tick that finds no installed
\* context submits nothing.
C9_NoFrameDuringAcquisition ==
  /\ []C9_Inv
  /\ [][(Ticked /\ contextRef[ticks'.inst] = 0) =>
          /\ gpu' = gpu
          /\ lastFrame' = lastFrame
          /\ ~Wrote(ticks')]_vars

\* A second initialization is awaiting its device after the first one's loop
\* has submitted a batch, and no callback is pending.
C9_Witness ==
  /\ effect # 0
  /\ sess[effect].pc = "awaitDevice"
  /\ Submitted
  /\ pending = {}

\* C10: once the cleanup of a session has run, no frame callback of its loop
\* is pending, so none runs and no batch is submitted for it.
C10_CleanupCancelsLoop ==
  /\ \A cb \in pending : ~sess[cb.loop].cancelled /\ cb.inst = mounted
  /\ \A s \in Sessions :
       (sess[s].cancelled /\ sess[s].pc # "done") => ~sess[s].scheduled

\* The cleanup of a session has run after its loop had submitted a batch.
C10_Witness ==
  /\ Submitted
  /\ sess[lastFrame.loop].cancelled
  /\ sess[lastFrame.loop].scheduled
  /\ \A cb \in pending : cb.loop # lastFrame.loop


\* ---- properties of the inputs --------------------------------------------

\* The step that is being taken submits a frame.
Submits == Ticked /\ ticks'.path = "submitted"

\* C11: every submitted frame packs the most recently observed values: the
\* pointer position and the pressed flag of the Parameter Block are those the
\* last mouse event left in mouseRef, and speed, interactionRadius,
\* forceStrength and colorScheme are those of the tunables the host delivered
\* last, whatever an earlier frame packed.
C11_Step ==
  Submits =>
    LET u == lastFrame'.uniform
    IN  /\ u[1] = mouseRef.x
        /\ u[2] = mouseRef.y
        /\ u[9] = (IF mouseRef.isDown THEN 1 ELSE 0)
        /\ u[6] = tunablesProp.speed
        /\ u[7] = tunablesProp.interactionRadius
        /\ u[8] = tunablesProp.forceStrength
        /\ u[10] = getColorSchemeValue(tunablesProp.colorScheme)

C11_FramePacksLatestInputs == [][C11_Step]_vars

\* A second frame has been submitted that packs a pointer position, a pressed
\* button and tunables that all differ from the initial ones.
C11_Witness ==
  /\ Submitted
  /\ lastFrame.step = 1
  /\ lastFrame.uniform[1] = [n |-> 1, d |-> 1]
  /\ lastFrame.uniform[2] = [n |-> -1, d |-> 1]
  /\ lastFrame.uniform[9] = 1
  /\ lastFrame.uniform[6] = 2
  /\ lastFrame.uniform[10] = 2

\* C12: when the host delivers a new tunables record to a mounted instance,
\* the init effect re-runs (the buffers, pipelines and bind groups are created
\* again and step starts at 0) if and only if particleCount changed; a change
\* of speed, interactionRadius, forceStrength or colorScheme alone leaves the
\* installed context, its buffers and step, the sessions and the requested
\* frame as they are.
C12_Step ==
  (/\ mounted # 0
   /\ mounted' = mounted
   /\ paramsProp' # paramsProp \/ tunablesProp' # tunablesProp) =>
    /\ effect' # effect <=> paramsProp' # paramsProp
    /\ paramsProp' # paramsProp =>
          /\ sess'[effect].cancelled
          /\ sess'[effect'].pc # "idle"
    /\ paramsProp' = paramsProp =>
          /\ contextRef' = contextRef
          /\ gpu' = gpu
          /\ sess' = sess
          /\ pending' = pending
          /\ requestRef' = requestRef
          /\ status' = status

C12_RecreationIffCountChanged == [][C12_Step]_vars

\* New tunables were delivered while a context was installed and the loop
\* was running, and a frame has been submitted with them at step 1.
C12_Witness ==
  /\ mounted # 0
  /\ contextRef[mounted] # 0
  /\ tunablesRef # InitialTunables
  /\ Submitted
  /\ lastFrame.ctx = contextRef[mounted]
  /\ lastFrame.step = 1
  /\ lastFrame.uniform[6] = tunablesRef.speed
  /\ gpu[lastFrame.ctx].frames = 2

\* C13: the Parameter Block written by a frame is 12 f32 values, 48 bytes,
\* a multiple of 16 and the size of the uniform buffer, and the SimParams
\* struct of either shader reads from it mousePos, resolution, deltaTime,
\* speed, radius, force, isClicking and colorScheme as the host meant them;
\* what follows the struct's members is padding.
C13_Step ==
  Submits =>
    LET u == lastFrame'.uniform
    IN  /\ Len(u) = 12
        /\ Len(u) * Float32Bytes = UniformBufferSize
        /\ UniformBufferSize = 48
        /\ UniformBufferSize % 16 = 0
        /\ \A struct \in {ComputeSimParams, RenderSimParams} :
             /\ [k \in 1..Len(struct) |-> struct[k].name] =
                  <<"mousePos", "resolution", "deltaTime", "speed", "radius",
                    "force", "isClicking", "colorScheme">>
             /\ StructSize(struct) <= UniformBufferSize
             /\ Member(struct, u, "mousePos") = <<mouseRef.x, mouseRef.y>>
             /\ Member(struct, u, "resolution") = <<canvas[1], canvas[2]>>
             /\ Member(struct, u, "deltaTime") = <<DeltaTime>>
             /\ Member(struct, u, "speed") = <<tunablesRef.speed>>
             /\ Member(struct, u, "radius") = <<tunablesRef.interactionRadius>>
             /\ Member(struct, u, "force") = <<tunablesRef.forceStrength>>
             /\ Member(struct, u, "isClicking") =
                  <<IF mouseRef.isDown THEN 1 ELSE 0>>
             /\ Member(struct, u, "colorScheme") =
                  <<getColorSchemeValue(tunablesRef.colorScheme)>>
             /\ \A w \in 1..Len(u) :
                  (w - 1) * Float32Bytes >=
                    OffsetOf(struct, Len(struct)) + Float32Bytes => u[w] = 0

C13_BlockMatchesSimParams == [][C13_Step]_vars

\* A frame has been submitted whose block holds a speed, a radius and a
\* force that differ from each other, on a canvas wider than it is high.
C13_Witness ==
  /\ Submitted
  /\ lastFrame.uniform[3] = 2
  /\ lastFrame.uniform[4] = 1
  /\ lastFrame.uniform[6] = 2
  /\ lastFrame.uniform[7] = 4
  /\ lastFrame.uniform[8] = 6

\* C20: the color scheme round-trips: the host writes 0 for neon, 1 for fire
\* and 2 for ocean, and for the value a frame carries the thresholds of the
\* vertex stage select the ramp of the scheme the host was given.
C20_Step ==
  Submits =>
    LET v == Member(RenderSimParams, lastFrame'.uniform, "colorScheme")[1]
        scheme == tunablesProp.colorScheme
    IN  /\ scheme \in Schemes
        /\ scheme = "neon" => v = 0
        /\ scheme = "fire" => v = 1
        /\ scheme = "ocean" => v = 2
        /\ SelectRamp(v) = scheme

C20_ColorSchemeRoundTrips == [][C20_Step]_vars

\* Frames have been submitted with the fire scheme after another scheme.
C20_Witness ==
  /\ Submitted
  /\ lastFrame.step = 1
  /\ tunablesRef.colorScheme = "fire"
  /\ SelectRamp(lastFrame.uniform[10]) = "fire"

\* C15: a resize changes the canvas's pixel size and nothing else: the
\* installed contexts with their buffers and step, the bind groups, the
\* sessions, the requested frame and the refs stay as they are; and every
\* frame submitted afterwards packs the width and height of the last resize
\* into the resolution field.
C15_Step ==
  /\ viewport' # viewport =>
        /\ gpu' = gpu
        /\ contextRef' = contextRef
        /\ sess' = sess
        /\ pending' = pending
        /\ requestRef' = requestRef
        /\ lastFrame' = lastFrame
        /\ paramsRef' = paramsRef
        /\ tunablesRef' = tunablesRef
        /\ mouseRef' = mouseRef
        /\ status' = status
        /\ mounted # 0 => canvas' = CanvasSize(viewport')
  /\ Submits =>
        <<lastFrame'.uniform[3], lastFrame'.uniform[4]>> = CanvasSize(viewport)

C15_ResizeOnlyChangesResolution == [][C15_Step]_vars

\* After a resize to 2 by 2 the second frame of the same context has been
\* submitted with that resolution.
C15_Witness ==
  /\ Submitted
  /\ viewport = <<2, 2>>
  /\ lastFrame.step = 1
  /\ lastFrame.uniform[3] = 2 * Dpr
  /\ lastFrame.uniform[4] = 2 * Dpr
  /\ gpu[lastFrame.ctx].step = 2

\* ---- properties of the lifecycle, continued --------------------------------

\* Some initialization attempt has reported unsupported or error.
Faulted == \E s \in Sessions : sess[s].reported \in Faults

\* C17: Faulted is terminal: once some attempt has reported unsupported or
\* error, no attempt reports supported any more, the host's status does not
\* become supported, and no frame is submitted.
C17_Step ==
  Faulted =>
    /\ \A s \in Sessions :
         sess'[s].reported = "supported" => sess[s].reported = "supported"
    /\ status' = "supported" => status = "supported"
    /\ ~Submits

C17_FaultedIsTerminal == [][C17_Step]_vars

\* The global invocation indices of the compute dispatch of a frame.
Invocations(frame) == 0..(frame.workgroups * WorkgroupSize - 1)

\* C18: every submitted frame dispatches ceil(particleCount / 64) workgroups
\* of 64 invocations: every particle index below particleCount has an
\* invocation, fewer than 64 invocations are surplus and the bounds check
\* skips each of them; and it draws 6 vertices for each of particleCount
\* instances.
C18_Step ==
  Submits =>
    LET frame == lastFrame'
        count == paramsRef[ticks'.inst]
        len == gpu[frame.ctx].numParticles
    IN  /\ frame.workgroups * WorkgroupSize >= count
        /\ (frame.workgroups - 1) * WorkgroupSize < count
        /\ \A index \in 0..(count - 1) : index \in Invocations(frame)
        /\ Cardinality(Invocations(frame)) - count < WorkgroupSize
        /\ \A index \in Invocations(frame) :
             index >= count => BoundsCheckSkips(index, len)
        /\ frame.vertices = 6
        /\ frame.instances = count

C18_DispatchCoversParticles == [][C18_Step]_vars
\* ---- properties of the particle data ---------------------------------------

\* C14: when the buffer creation code has run for N >= 1 particles, both
\* particle buffers have 16 * N bytes and the same contents: N particles with
\* both position components in [-1, 1] and both velocity components in
\* [-0.025, 0.025].
C14_SeededBuffers ==
  seed.phase = "done" =>
    LET n == seed.numParticles
        b0 == seed.particleBuffers[1]
        b1 == seed.particleBuffers[2]
    IN  /\ n >= 1
        /\ b0.size = 16 * n
        /\ b1.size = 16 * n
        /\ b0.data = b1.data
        /\ Len(b0.data) = 4 * n
        /\ \A i \in 0..(n - 1) :
             /\ b0.data[i * 4 + 1] >= -SeedOne /\ b0.data[i * 4 + 1] <= SeedOne
             /\ b0.data[i * 4 + 2] >= -SeedOne /\ b0.data[i * 4 + 2] <= SeedOne
             /\ 40 * b0.data[i * 4 + 3] >= -SeedOne
             /\ 40 * b0.data[i * 4 + 3] <= SeedOne
             /\ 40 * b0.data[i * 4 + 4] >= -SeedOne
             /\ 40 * b0.data[i * 4 + 4] <= SeedOne

\* Two particles have been seeded and written to both buffers, one at the
\* corner (-1, -1) with the least velocity -0.025, one with a positive
\* velocity.
C14_Witness ==
  /\ seed.phase = "done"
  /\ seed.numParticles = 2
  /\ seed.particleBuffers[2].data[1] = -SeedOne
  /\ seed.particleBuffers[2].data[2] = -SeedOne
  /\ 40 * seed.particleBuffers[2].data[3] = -SeedOne
  /\ seed.particleBuffers[2].data[7] > 0

\* C16: after every compute step from a seeded particle, for every tunables
\* of the sliders' ranges and every pointer input, both components of the
\* position written to the next buffer lie in [-1, 1].
C16_PositionsStayNormalized ==
  (kernel.phase = "run" /\ kernel.steps >= 1 /\ kernel.finite) =>
    /\ kernel.pos[1] >= -One /\ kernel.pos[1] <= One
    /\ kernel.pos[2] >= -One /\ kernel.pos[2] <= One

\* C19: for a particle exactly at the pointer, inside a radius greater than
\* 0, the compute step writes a finite position and velocity.
C19_ZeroDistanceIsFinite ==
  (kernel.phase = "run" /\ kernel.steps >= 1 /\ kernel.zeroDist) =>
    kernel.finite

\* ---- properties of the frame and of the loop -------------------------------

\* The positions of an operation in the operations of a call of animate.
At(ops, op) == {k \in 1..Len(ops) : ops[k] = op}

\* C21: a call of animate that passes the guards writes the Parameter Block,
\* encodes the compute pass, encodes the render pass, submits once and then
\* increments step, in this order; a call that throws has done a prefix of
\* it; the write of the uniform buffer precedes the submit, and the submit
\* and the increment are the ones the context sees.
C21_Step ==
  (Ticked /\ ticks'.path \notin {"noContext", "skipped"}) =>
    LET ops == ticks'.ops
        order == <<"writeBuffer", "computePass", "renderPass", "submit",
                   "step++", "requestAnimationFrame">>
        c == contextRef[ticks'.inst]
    IN  /\ Len(ops) <= Len(order)
        /\ ops = SubSeq(order, 1, Len(ops))
        /\ Cardinality(At(ops, "submit")) <= 1
        /\ \A k \in At(ops, "submit") :
             \E j \in At(ops, "writeBuffer") : j < k
        /\ ticks'.path = "submitted" <=> ops = order
        /\ Wrote(ticks') <=> At(ops, "writeBuffer") # {}
        /\ At(ops, "submit") # {} <=> gpu'[c].frames = gpu[c].frames + 1
        /\ At(ops, "submit") = {} => gpu'[c].frames = gpu[c].frames
        /\ At(ops, "step++") # {} <=> gpu'[c].step = gpu[c].step + 1
        /\ At(ops, "step++") = {} => gpu'[c].step = gpu[c].step

C21_FrameOrder == [][C21_Step]_vars

\* The second frame of a context has run to its end with all six operations.
C21_Witness ==
  /\ ticks.path = "submitted"
  /\ Len(ticks.ops) = 6
  /\ Submitted
  /\ lastFrame.step = 1
  /\ gpu[lastFrame.ctx].step = 2

\* C22: at every moment at most one animation-frame callback of the loop is
\* pending, whatever the interleaving of initializations settling,
\* particleCount changes and unmounts; so no step of the behaviour leaves two
\* loops that could each advance step in one display refresh.
C22_AtMostOneCallbackPending ==
  /\ Cardinality(pending) <= 1
  /\ \A cb1 \in pending, cb2 \in pending : cb1.loop = cb2.loop

\* The loop of a second initialization is running and has submitted a frame
\* after the first initialization, cancelled while it was acquiring, settled
\* late without starting a loop.
C22_Witness ==
  /\ Cardinality(pending) = 1
  /\ \A cb \in pending : cb.loop = 2
  /\ sess[1].cancelled
  /\ sess[1].pc = "done"
  /\ ~sess[1].scheduled
  /\ Submitted
  /\ lastFrame.loop = 2

\* C23: in every submitted frame the particleCount of the dispatch and of the
\* draw is the number of particles the buffers of the context in use were
\* allocated for, also after a particleCount change whose initialization
\* failed or has not settled.
C23_Step ==
  Submits =>
    LET frame == lastFrame'
        allocated == gpu[frame.ctx].numParticles
    IN  /\ frame.instances = allocated
        /\ frame.workgroups = WorkgroupCount(allocated)

C23_CountMatchesBuffers == [][C23_Step]_vars

\* C24: an initialization whose effect cleanup has run never installs its
\* context: whenever contextRef.current is assigned, the assigning attempt
\* is the current one of the mounted instance, and an installed context of
\* the current attempt is not replaced by an older attempt's.
C24_Step ==
  \A i \in Instances :
    contextRef'[i] # contextRef[i] =>
      /\ ~sess[contextRef'[i]].cancelled
      /\ contextRef'[i] = effect
      /\ contextRef'[i] >= contextRef[i]

C24_SupersededNeverInstalls == [][C24_Step]_vars

\* The statuses that end an initialization attempt.
TerminalStatuses == {"supported", "unsupported", "error"}

\* C25: every initialization attempt reports a terminal status: once its
\* initWebGPU has settled and its popErrorScope, if any, has resolved, the
\* attempt has reported supported, unsupported or error.
C25_SettledAttemptReported ==
  \A s \in Sessions :
    (sess[s].pc = "done" /\ ~sess[s].pop) =>
      sess[s].reported \in TerminalStatuses

====
